---- MODULE Spec2Model ----
(***************************************************************************)
(* A model of the Telegram approval bot in bot.py.                         *)
(*                                                                         *)
(* Two threads share the module-level dictionary left_users:               *)
(*   - the dispatcher thread, which runs one handler at a time             *)
(*     (track_chat_members, manual_approve, start_approval);               *)
(*   - the job-queue thread, which runs approve_all_pending.               *)
(* No lock guards left_users, so a step of one thread may fall between any *)
(* two statements of the other.  Each action below is one statement (or a  *)
(* run of statements that touch only the thread's own locals).             *)
(*                                                                         *)
(* External calls of the Telegram client (fetch, approve, decline, send)   *)
(* and the write of left_users.json either return or raise.                *)
(* get_channel_username never raises (it absorbs its own errors) and only  *)
(* decides the display name of a channel: a channel is shown by its id.    *)
(***************************************************************************)
EXTENDS Integers, Sequences, FiniteSets, TLC

\* ------------------------------------------------------------------ bounds

\* Longest list of pending requests a fetch returns.
MaxPending == 1
\* Updates the dispatcher handles in a behaviour of Spec.
MaxUpdates == 2
\* Updates the dispatcher handles in a behaviour of SpecLedger.
MaxLedgerUpdates == 3
\* Updates the dispatcher handles in a behaviour of SpecRace.
MaxRaceUpdates == 3
\* Longest queue of scheduled approve_all_pending jobs.
MaxJobs == 1
\* /approve_all commands the dispatcher handles in a behaviour of SpecRun.
MaxRunCommands == 1

\* --------------------------------------------------------------- constants

\* bot.py:33-37, the monitored channels (ids parsed from the environment).
CHANNEL_IDS == <<11, 12, 13>>

\* bot.py:43
MIN_ACCOUNT_AGE_DAYS == 30

\* Text is a sequence of one-character strings.
\* bot.py:44-45
SUSPICIOUS_NAMES ==
    << <<"d","e","l","e","t","e","d"," ","a","c","c","o","u","n","t">>,
       <<"b","o","t">>,
       <<"b","o","t","s">>,
       <<"p","o","l","i","c","e">>,
       <<"t","e","l","e","g","r","a","m">>,
       <<"a","d","m","i","n">>,
       <<"s","u","p","p","o","r","t">>,
       <<"o","f","f","i","c","i","a","l">>,
       <<"h","t","t","p">>,
       <<"w","w","w">>,
       <<".","c","o","m">>,
       <<".","r","u">>,
       <<".","x","y","z">>,
       <<"c","l","i","c","k">>,
       <<"p","r","o","m","o">>,
       <<"s","a","l","e","s">> >>

\* The users the environment talks about, and the chats an update or a
\* command may name (14 is a chat the bot does not monitor).
UserIds == {1, 2}
ChatIds == {11, 12, 13, 14}

\* The chat a command is typed in.
OperatorChat == 50

Range(s) == {s[i] : i \in 1..Len(s)}

\* ------------------------------------------------------- python primitives

\* str(n) of the integers the model uses.
Str(n) ==
    CASE n = 0  -> "0"
      [] n = 1  -> "1"
      [] n = 2  -> "2"
      [] n = 11 -> "11"
      [] n = 12 -> "12"
      [] n = 13 -> "13"
      [] n = 14 -> "14"
      [] OTHER  -> "?"

\* The strings an operator may type as a command argument: decimal numbers,
\* numbers int() accepts but str() never produces ("01", "011"), and text
\* int() rejects with ValueError.
ArgStrings == {"0", "1", "2", "01", "11", "12", "13", "14", "011", "abc"}

\* int(s) raises ValueError
IntRaises(s) == s \notin {"0", "1", "2", "01", "11", "12", "13", "14", "011"}

\* int(s)
ParseInt(s) ==
    CASE s = "0"   -> 0
      [] s = "1"   -> 1
      [] s = "2"   -> 2
      [] s = "01"  -> 1
      [] s = "11"  -> 11
      [] s = "12"  -> 12
      [] s = "13"  -> 13
      [] s = "14"  -> 14
      [] s = "011" -> 11
      [] OTHER     -> 0

\* c.lower() of one character.
LowerChar(c) ==
    CASE c = "A" -> "a"
      [] c = "B" -> "b"
      [] c = "D" -> "d"
      [] c = "I" -> "i"
      [] c = "M" -> "m"
      [] c = "N" -> "n"
      [] c = "O" -> "o"
      [] c = "T" -> "t"
      [] OTHER   -> c

\* s.lower()
Lower(s) == [i \in 1..Len(s) |-> LowerChar(s[i])]

\* keyword in s   (substring test)
Contains(s, keyword) ==
    \E i \in 1..(Len(s) - Len(keyword) + 1) :
        SubSeq(s, i, i + Len(keyword) - 1) = keyword

\* any(keyword in s for keyword in SUSPICIOUS_NAMES), the for loops of
\* lines 115-117, 121-123 and 127-129.
HasKeyword(s) ==
    \E k \in 1..Len(SUSPICIOUS_NAMES) : Contains(s, SUSPICIOUS_NAMES[k])

\* ------------------------------------------------------------- the ledger

\* left_users is a dict: user-id string -> list of channel ids.
EmptyDict == [k \in {} |-> <<>>]

\* key in d
HasKey(d, key) == key \in DOMAIN d

\* d[key] = value
DictSet(d, key, value) ==
    [k \in (DOMAIN d) \cup {key} |-> IF k = key THEN value ELSE d[k]]

\* del d[key]
DictDel(d, key) == [k \in (DOMAIN d) \ {key} |-> d[k]]

\* x in list
InList(list, x) == x \in Range(list)

\* list.remove(x): the first occurrence goes.
ListRemove(list, x) ==
    LET i == CHOOSE j \in 1..Len(list) :
                 list[j] = x /\ \A k \in 1..(j - 1) : list[k] # x
    IN  SubSeq(list, 1, i - 1) \o SubSeq(list, i + 1, Len(list))

\* The file left_users.json: absent, a JSON document, or cut short by a
\* failed write.
NoFile == [kind |-> "absent", data |-> EmptyDict]
JsonFile(data) == [kind |-> "json", data |-> data]
BrokenFile == [kind |-> "broken", data |-> EmptyDict]

\* load_left_users(): the document, or {} when the file is absent or
\* json.load raises.
load_left_users(file) ==
    IF file.kind = "json" THEN file.data ELSE EmptyDict

\* save_left_users(data): the files the call may leave behind.  open(.., 'w')
\* may raise before it touches the file; json.dump may raise after open has
\* truncated it; both errors are logged and swallowed.
save_left_users(file, data) == {JsonFile(data), file, BrokenFile}

\* ---------------------------------------------------------- the classifier

\* A user profile: created_at is absent (the attribute is missing or None),
\* a datetime (days on the model's clock) or a value that is no datetime;
\* username, first_name and last_name are text, <<>> standing for None and
\* for "" alike (the code tests them only for truth).
NoDate == [kind |-> "none", day |-> 0]
Date(d) == [kind |-> "datetime", day |-> d]
BadDate == [kind |-> "bad", day |-> 0]

Verdict(s, r) == [suspicious |-> s, reason |-> r]

\* A classifier that looks for the missing username before the names.
NameRules_handle_first(user) ==
    IF user.username # <<>> /\ HasKeyword(Lower(user.username))
    THEN Verdict(TRUE, "Suspicious username")
    ELSE IF user.username = <<>>
    THEN Verdict(TRUE, "No username")
    ELSE IF user.first_name # <<>> /\ HasKeyword(Lower(user.first_name))
    THEN Verdict(TRUE, "Suspicious first name")
    ELSE IF user.last_name # <<>> /\ HasKeyword(Lower(user.last_name))
    THEN Verdict(TRUE, "Suspicious last name")
    ELSE Verdict(FALSE, "User appears legitimate")

\* The name rules of is_suspicious_user, lines 113-134, in their order.
NameRules(user) ==
    IF user.username # <<>> /\ HasKeyword(Lower(user.username))
    THEN Verdict(TRUE, "Suspicious username")
    ELSE IF user.first_name # <<>> /\ HasKeyword(Lower(user.first_name))
    THEN Verdict(TRUE, "Suspicious first name")
    ELSE IF user.last_name # <<>> /\ HasKeyword(Lower(user.last_name))
    THEN Verdict(TRUE, "Suspicious last name")
    ELSE IF user.username = <<>>
    THEN Verdict(TRUE, "No username")
    ELSE Verdict(FALSE, "User appears legitimate")

\* is_suspicious_user(user) at time now (datetime.now(), in days).
is_suspicious_user(user, now) ==
    IF user.created_at.kind = "bad"
    THEN \* datetime.now() - user.created_at raises; line 135 catches it
         Verdict(TRUE, "Error checking user")
    ELSE IF user.created_at.kind = "datetime"
            /\ now - user.created_at.day < MIN_ACCOUNT_AGE_DAYS
    THEN Verdict(TRUE, "Account too new")
    ELSE NameRules(user)

\* ------------------------------------------------------------------ state

VARIABLES
    \* shared by both threads
    left_users,         \* the dict left_users (bot.py:89)
    disk,               \* the file left_users.json
    jobs,               \* the job queue: contexts of scheduled runs
    \* the dispatcher thread
    d_pc,               \* the statement the running handler is at
    update,             \* the update it handles
    user_id,            \* track_chat_members / manual_approve: user_id
    channel,            \* chat_id of the tracker, channel of manual_approve
    channels_to_approve,
    d_i,                \* index of the for loop of line 308
    approved_channels,
    reply,              \* the text of update.message.reply_text
    d_calls,            \* approve calls the running handler has issued
    updates,            \* updates handled so far
    \* the job-queue thread
    b_pc,               \* the statement approve_all_pending is at
    chat_id,
    channels_to_process,
    b_i,                \* index of the for loop of line 179
    pending_requests,
    b_r,                \* index of the for loop of line 191
    approved_count,
    rejected_count,
    total_approved,
    total_rejected,
    results,
    b_calls,            \* decision calls issued for the current channel
    sent,               \* messages send_message delivered in this run
    fetched,            \* this run's fetches: TRUE returned, FALSE raised
    \* history
    pre_left_users,     \* left_users when the running handler was entered
    pre_disk,           \* disk when the running handler was entered
    observed,           \* departures observed and not cleared since
    write_failed,       \* a save of this process left the file out of date
    during_run,         \* the pairs of observed that arrived during a run
    \* a call of is_suspicious_user on its own
    cls_user,           \* the argument user
    cls_now,            \* what datetime.now() returns, in days
    cls_verdict         \* the pair the call returned

sharedVars == <<left_users, disk, jobs>>
dispVars == <<d_pc, update, user_id, channel, channels_to_approve, d_i,
              approved_channels, reply, d_calls, updates>>
batchVars == <<b_pc, chat_id, channels_to_process, b_i, pending_requests, b_r,
               approved_count, rejected_count, total_approved, total_rejected,
               results, b_calls, sent, fetched>>
histVars == <<pre_left_users, pre_disk, observed, write_failed, during_run>>
classVars == <<cls_user, cls_now, cls_verdict>>
vars == <<sharedVars, dispVars, batchVars, histVars, classVars>>

\* ---------------------------------------------------------------- updates


Statuses == {"member", "administrator", "creator", "restricted", "left", "kicked"}

NoUpdate ==
    [type |-> "none", chat |-> 0, old_status |-> "", new_status |-> "",
     user |-> 0, command |-> "", args |-> <<>>, chat_type |-> "",
     caller_status |-> ""]

\* A chat_member update (update.chat_member is set) or a my_chat_member
\* update (update.chat_member is None).
MemberUpdates ==
    {[type |-> t, chat |-> c, old_status |-> o, new_status |-> n, user |-> u,
      command |-> "", args |-> <<>>, chat_type |-> "channel",
      caller_status |-> ""] :
        t \in {"chat_member", "my_chat_member"}, c \in ChatIds,
        o \in Statuses, n \in Statuses, u \in UserIds}

\* A command typed by a user whose status get_chat_member reports as
\* caller_status ("raise": the call raises).
CommandUpdates(command, argsets) ==
    {[type |-> "command", chat |-> OperatorChat, old_status |-> "",
      new_status |-> "", user |-> 0, command |-> command, args |-> a,
      chat_type |-> ct, caller_status |-> cs] :
        a \in argsets, ct \in {"supergroup", "private"},
        cs \in {"administrator", "member", "raise"}}

\* context.args of /approve_user: nothing, a user id, a user id and a channel.
ApproveUserArgs ==
    {<<>>} \cup {<<u>> : u \in {"1", "2", "01", "abc"}}
           \cup {<<u, c>> : u \in {"1", "2", "01", "abc"},
                            c \in {"0", "11", "12", "13", "14", "011", "abc"}}

\* context.args of /approve_all: nothing or a channel.
ApproveAllArgs == {<<>>} \cup {<<c>> : c \in {"0", "11", "14", "011", "abc"}}

\* Lines 245-253 and 285-293: the reply that refuses the command, "" when the
\* caller is an administrator of a group chat.
Refusal(upd) ==
    IF upd.chat_type \notin {"group", "supergroup", "channel"}
    THEN "This command can only be used in group/channel chats."
    ELSE IF upd.caller_status = "raise"
    THEN "Error verifying admin status."
    ELSE IF upd.caller_status \notin {"administrator", "creator"}
    THEN "You need to be an admin to use this command."
    ELSE ""

\* ------------------------------------------------------------------- Init

\* is_suspicious_user is not being called on its own.
NoVerdict == [suspicious |-> FALSE, reason |-> ""]
NoUser ==
    [id |-> 0, created_at |-> [kind |-> "none", day |-> 0], username |-> <<>>,
     first_name |-> <<>>, last_name |-> <<>>]
NotCalled ==
    /\ cls_user = NoUser
    /\ cls_now = 0
    /\ cls_verdict = NoVerdict

\* The threads of a process that has just started.
Threads ==
    /\ jobs = <<>>
    /\ d_pc = "idle"
    /\ update = NoUpdate
    /\ user_id = ""
    /\ channel = 0
    /\ channels_to_approve = <<>>
    /\ d_i = 0
    /\ approved_channels = <<>>
    /\ reply = ""
    /\ d_calls = <<>>
    /\ updates = 0
    /\ b_pc = "idle"
    /\ chat_id = 0
    /\ channels_to_process = <<>>
    /\ b_i = 0
    /\ pending_requests = <<>>
    /\ b_r = 0
    /\ approved_count = 0
    /\ rejected_count = 0
    /\ total_approved = 0
    /\ total_rejected = 0
    /\ results = <<>>
    /\ b_calls = <<>>
    /\ sent = <<>>
    /\ fetched = <<>>
    /\ pre_left_users = EmptyDict
    /\ pre_disk = NoFile
    /\ observed = {}
    /\ write_failed = FALSE
    /\ during_run = {}

Started == Threads /\ NotCalled

\* The process has started (line 89) beside this file.
StartedWith(file) ==
    /\ disk = file
    /\ left_users = load_left_users(file)
    /\ Started

\* A first start: there is no left_users.json yet.
Init == StartedWith(NoFile)

\* ------------------------------------------------- the dispatcher thread

Monitored(c) == c \in Range(CHANNEL_IDS)

\* A tracker that forgets administrators and creators.
IsDeparture_members_only(old_status, new_status) ==
    /\ old_status \in {"member"}
    /\ new_status \in {"left", "kicked"}

\* Lines 150-151: the transition the tracker records.
IsDeparture(old_status, new_status) ==
    /\ old_status \in {"member", "administrator", "creator"}
    /\ new_status \in {"left", "kicked"}

\* Lines 154-155: if user_id not in left_users: left_users[user_id] = []
EnsureEntry(d, key) == IF HasKey(d, key) THEN d ELSE DictSet(d, key, <<>>)

\* A tracker that appends without looking.
NeedsAppend_always(d, key, c) == TRUE

\* Line 157: if chat_id not in left_users[user_id]
NeedsAppend(d, key, c) == ~InList(d[key], c)

\* Lines 195 and 313: user_id in left_users and channel in left_users[user_id]
has_left(d, key, c) == HasKey(d, key) /\ InList(d[key], c)

\* A tracker that keeps only the last channel a user left.
AppendChannel_replaces(d, key, c) == DictSet(d, key, <<c>>)

\* Line 158: left_users[user_id].append(chat_id)
AppendChannel(d, key, c) == DictSet(d, key, Append(d[key], c))

\* A manual approval that forgets the remove.
RemoveChannel_keeps(d, key, c) == d

\* Line 314: left_users[user_id].remove(channel)
RemoveChannel(d, key, c) == DictSet(d, key, ListRemove(d[key], c))

\* Lines 315-316: if not left_users[user_id]: del left_users[user_id]
DropIfEmpty(d, key) == IF d[key] = <<>> THEN DictDel(d, key) ELSE d

\* Line 305: channels_to_approve = [channel_id] if channel_id else CHANNEL_IDS
\* (args holds the user id and, maybe, a channel; None and 0 are both false).
ChannelsToApprove(args) ==
    IF Len(args) > 1 /\ ParseInt(args[2]) # 0
    THEN <<ParseInt(args[2])>>
    ELSE CHANNEL_IDS

\* A handler is entered: the update is taken from the queue of the dispatcher.
Enter(upd) ==
    /\ d_pc = "idle"
    /\ update' = upd
    /\ updates' = updates + 1
    /\ pre_left_users' = left_users
    /\ pre_disk' = disk
    /\ d_calls' = <<>>

\* A handler returns at once with this reply ("" for none).
ReturnWith(text) ==
    /\ d_pc' = "return"
    /\ reply' = text
    /\ UNCHANGED <<left_users, disk, jobs, user_id, channel,
                   channels_to_approve, d_i, approved_channels>>

\* The states of a member who is in the chat, and of one who has gone.
ActiveStates == {"member", "administrator", "creator"}
DepartedStates == {"left", "kicked"}

\* History: the tracker is handed a chat_member update of a monitored channel
\* that takes the user from an active state to a departed one.
ObservesDeparture(upd) ==
    /\ upd.type = "chat_member"
    /\ Monitored(upd.chat)
    /\ upd.old_status \in ActiveStates
    /\ upd.new_status \in DepartedStates

\* History: a run of approve_all_pending has started and not ended.
RunInProgress == b_pc \notin {"idle", "done"}

\* track_chat_members, lines 139-155: the guards, and the entry of a user
\* the ledger does not know yet.
track_chat_members(upd) ==
    /\ Enter(upd)
    /\ upd \in MemberUpdates
    /\ IF /\ upd.type = "chat_member"
          /\ Monitored(upd.chat)
          /\ IsDeparture(upd.old_status, upd.new_status)
       THEN /\ user_id' = Str(upd.user)
            /\ channel' = upd.chat
            /\ left_users' = EnsureEntry(left_users, Str(upd.user))
            /\ d_pc' = "track_157"
            /\ UNCHANGED <<disk, jobs, channels_to_approve, d_i,
                           approved_channels, reply>>
       ELSE ReturnWith("")
    /\ observed' = IF ObservesDeparture(upd)
                   THEN observed \cup {<<Str(upd.user), upd.chat>>}
                   ELSE observed
    /\ during_run' = IF ObservesDeparture(upd) /\ RunInProgress
                     THEN during_run \cup {<<Str(upd.user), upd.chat>>}
                     ELSE during_run
    /\ write_failed' = write_failed
    /\ UNCHANGED <<batchVars, classVars>>

\* Lines 157-158: the channel is appended unless the entry holds it.
track_append ==
    /\ d_pc = "track_157"
    /\ IF NeedsAppend(left_users, user_id, channel)
       THEN /\ left_users' = AppendChannel(left_users, user_id, channel)
            /\ d_pc' = "track_159"
       ELSE /\ left_users' = left_users
            /\ d_pc' = "return"
    /\ UNCHANGED <<disk, jobs, update, user_id, channel, channels_to_approve,
                   d_i, approved_channels, reply, d_calls, updates>>
    /\ UNCHANGED <<batchVars, histVars, classVars>>

\* A tracker that leaves the write for later.
track_save_deferred ==
    /\ d_pc = "track_159"
    /\ d_pc' = "return"
    /\ UNCHANGED <<sharedVars, update, user_id, channel, channels_to_approve,
                   d_i, approved_channels, reply, d_calls, updates>>
    /\ UNCHANGED <<batchVars, histVars, classVars>>

\* A tracker that takes the mutation back when the write fails.
track_save_rolls_back ==
    /\ d_pc = "track_159"
    /\ disk' \in save_left_users(disk, left_users)
    /\ write_failed' = (write_failed \/ disk' # JsonFile(left_users))
    /\ left_users' = IF disk' = JsonFile(left_users)
                     THEN left_users ELSE pre_left_users
    /\ d_pc' = "return"
    /\ UNCHANGED <<jobs, update, user_id, channel, channels_to_approve, d_i,
                   approved_channels, reply, d_calls, updates>>
    /\ UNCHANGED <<pre_left_users, pre_disk, observed, during_run>>
    /\ UNCHANGED <<batchVars, classVars>>

\* Line 159: save_left_users(left_users); lines 161-162 only log.
track_save ==
    /\ d_pc = "track_159"
    /\ disk' \in save_left_users(disk, left_users)
    /\ write_failed' = (write_failed \/ disk' # JsonFile(left_users))
    /\ d_pc' = "return"
    /\ UNCHANGED <<left_users, jobs, update, user_id, channel,
                   channels_to_approve, d_i, approved_channels, reply, d_calls,
                   updates>>
    /\ UNCHANGED <<pre_left_users, pre_disk, observed, during_run>>
    /\ UNCHANGED <<batchVars, classVars>>

\* manual_approve, lines 283-307.
manual_approve(upd) ==
    /\ Enter(upd)
    /\ upd \in CommandUpdates("approve_user", ApproveUserArgs)
    /\ IF Refusal(upd) # ""
       THEN ReturnWith(Refusal(upd))
       ELSE IF Len(upd.args) < 1
       THEN ReturnWith("Please provide a user ID to approve.")
       ELSE IF Len(upd.args) > 1 /\ IntRaises(upd.args[2])
       THEN \* int(context.args[1]) raises ValueError, line 331
            ReturnWith("Please provide valid numeric IDs.")
       ELSE /\ user_id' = upd.args[1]
            /\ channels_to_approve' = ChannelsToApprove(upd.args)
            /\ approved_channels' = <<>>
            /\ d_i' = 1
            /\ d_pc' = "manual_308"
            /\ UNCHANGED <<left_users, disk, jobs, channel, reply>>
    /\ UNCHANGED <<observed, write_failed, during_run>>
    /\ UNCHANGED <<batchVars, classVars>>

\* Lines 308-314: the next channel of the loop; a channel that is not
\* monitored is skipped; the channel is removed from the user's entry.
manual_next_channel ==
    /\ d_pc = "manual_308"
    /\ IF d_i > Len(channels_to_approve)
       THEN /\ d_pc' = "manual_325"
            /\ UNCHANGED <<left_users, channel, d_i, observed, during_run>>
       ELSE LET c == channels_to_approve[d_i] IN
            IF ~Monitored(c)
            THEN /\ d_i' = d_i + 1
                 /\ UNCHANGED <<left_users, channel, d_pc, observed, during_run>>
            ELSE /\ channel' = c
                 /\ d_i' = d_i
                 /\ observed' = observed \ {<<user_id, c>>}
                 /\ during_run' = during_run \ {<<user_id, c>>}
                 /\ IF has_left(left_users, user_id, c)
                    THEN /\ left_users' = RemoveChannel(left_users, user_id, c)
                         /\ d_pc' = "manual_315"
                    ELSE /\ left_users' = left_users
                         /\ d_pc' = "manual_320"
    /\ UNCHANGED <<disk, jobs, update, user_id, channels_to_approve,
                   approved_channels, reply, d_calls, updates, pre_left_users,
                   pre_disk, write_failed>>
    /\ UNCHANGED <<batchVars, classVars>>

\* Lines 315-316: an entry left empty is deleted.
manual_del ==
    /\ d_pc = "manual_315"
    /\ left_users' = DropIfEmpty(left_users, user_id)
    /\ d_pc' = "manual_317"
    /\ UNCHANGED <<disk, jobs, update, user_id, channel, channels_to_approve,
                   d_i, approved_channels, reply, d_calls, updates>>
    /\ UNCHANGED <<batchVars, histVars, classVars>>

\* Line 317: save_left_users(left_users)
manual_save ==
    /\ d_pc = "manual_317"
    /\ disk' \in save_left_users(disk, left_users)
    /\ write_failed' = (write_failed \/ disk' # JsonFile(left_users))
    /\ d_pc' = "manual_320"
    /\ UNCHANGED <<left_users, jobs, update, user_id, channel,
                   channels_to_approve, d_i, approved_channels, reply, d_calls,
                   updates>>
    /\ UNCHANGED <<pre_left_users, pre_disk, observed, during_run>>
    /\ UNCHANGED <<batchVars, classVars>>

ApproveCall(c, u, ok) == [op |-> "approve", channel |-> c, user |-> u, ok |-> ok]

\* The handlers of lines 331-334: the loop is left and the error is the reply.
ManualRaise(text) ==
    /\ d_pc' = "return"
    /\ reply' = text
    /\ UNCHANGED <<d_i, approved_channels>>

\* Lines 320-323: the approve call; int(user_id) raises ValueError (line
\* 331) and a failed call raises (line 333).
manual_call ==
    /\ d_pc = "manual_320"
    /\ IF IntRaises(user_id)
       THEN /\ ManualRaise("Please provide valid numeric IDs.")
            /\ d_calls' = d_calls
       ELSE \E ok \in BOOLEAN :
            /\ d_calls' = Append(d_calls, ApproveCall(channel, ParseInt(user_id), ok))
            /\ IF ok
               THEN /\ approved_channels' = Append(approved_channels, channel)
                    /\ d_i' = d_i + 1
                    /\ d_pc' = "manual_308"
                    /\ reply' = reply
               ELSE ManualRaise("Error approving user")
    /\ UNCHANGED <<left_users, disk, jobs, update, user_id, channel,
                   channels_to_approve, updates>>
    /\ UNCHANGED <<batchVars, histVars, classVars>>

\* Lines 325-329: the reply after the loop.
manual_reply ==
    /\ d_pc = "manual_325"
    /\ reply' = IF approved_channels # <<>>
                THEN "User has been manually approved."
                ELSE "No channels were approved."
    /\ d_pc' = "return"
    /\ UNCHANGED <<left_users, disk, jobs, update, user_id, channel,
                   channels_to_approve, d_i, approved_channels, d_calls, updates>>
    /\ UNCHANGED <<batchVars, histVars, classVars>>

\* A command that takes any number for a channel.
ResolveTarget_accepts_any(args) ==
    IF args = <<>> THEN <<TRUE, 0>>
    ELSE IF IntRaises(args[1]) THEN <<FALSE, 0>>
    ELSE <<TRUE, ParseInt(args[1])>>

\* Lines 256-270: the channel a run is scheduled for: <<TRUE, channel_id>>
\* (0 for None), or <<FALSE, 0>> when the command is refused.
ResolveTarget(args) ==
    IF args = <<>> THEN <<TRUE, 0>>
    ELSE IF IntRaises(args[1]) THEN <<FALSE, 0>>
    ELSE IF Monitored(ParseInt(args[1])) THEN <<TRUE, ParseInt(args[1])>>
    ELSE <<FALSE, 0>>

JobContext(chat, c) == [chat_id |-> chat, channel_id |-> c]

\* start_approval, lines 244-281: the run is handed to the job queue.
start_approval(upd) ==
    /\ Enter(upd)
    /\ upd \in CommandUpdates("approve_all", ApproveAllArgs)
    /\ Len(jobs) < MaxJobs
    /\ IF Refusal(upd) # ""
       THEN ReturnWith(Refusal(upd))
       ELSE IF upd.args # <<>> /\ IntRaises(upd.args[1])
       THEN ReturnWith("Please provide a valid channel ID (numeric).")
       ELSE IF ~ResolveTarget(upd.args)[1]
       THEN ReturnWith("Channel ID not found in monitored channels.")
       ELSE /\ jobs' = Append(jobs, JobContext(upd.chat, ResolveTarget(upd.args)[2]))
            /\ reply' = "Starting approval process..."
            /\ d_pc' = "return"
            /\ UNCHANGED <<left_users, disk, user_id, channel,
                           channels_to_approve, d_i, approved_channels>>
    /\ UNCHANGED <<observed, write_failed, during_run>>
    /\ UNCHANGED <<batchVars, classVars>>

\* The handler returns; its locals are gone.
handler_return ==
    /\ d_pc = "return"
    /\ d_pc' = "idle"
    /\ update' = NoUpdate
    /\ user_id' = ""
    /\ channel' = 0
    /\ channels_to_approve' = <<>>
    /\ d_i' = 0
    /\ approved_channels' = <<>>
    /\ reply' = ""
    /\ d_calls' = <<>>
    /\ pre_left_users' = EmptyDict
    /\ pre_disk' = NoFile
    /\ UNCHANGED <<left_users, disk, jobs, updates, observed, write_failed,
                   during_run>>
    /\ UNCHANGED <<batchVars, classVars>>

\* -------------------------------------------------- the job-queue thread

Text_al == <<"a", "l">>
Text_Al == <<"A", "l">>

User(id, created_at, username, first_name, last_name) ==
    [id |-> id, created_at |-> created_at, username |-> username,
     first_name |-> first_name, last_name |-> last_name]

\* The values datetime.now() takes, in days.
Clock == {100, 120}

\* The requesters a fetch returns: a plain profile of an account created on
\* day 80 (too new on day 100, old enough on day 120), a profile with no
\* username, and a profile whose created_at is no datetime.
Requesters ==
    {User(u, Date(80), Text_al, Text_Al, <<>>) : u \in UserIds}
    \cup {User(u, NoDate, <<>>, Text_Al, <<>>) : u \in UserIds}
    \cup {User(u, BadDate, Text_al, Text_Al, <<>>) : u \in UserIds}

\* What get_chat_join_requests may return (None counts as the empty list,
\* line 186).
FetchResults == UNION {[1..n -> Requesters] : n \in 0..MaxPending}

TallyLine(c, a, r) ==
    [kind |-> "tally", channel |-> c, approved |-> a, rejected |-> r, error |-> ""]
ErrorLine(c, e) ==
    [kind |-> "error", channel |-> c, approved |-> 0, rejected |-> 0, error |-> e]

SummaryMessage(a, r, lines) ==
    [kind |-> "summary", total_approved |-> a, total_rejected |-> r, lines |-> lines]
ErrorMessage ==
    [kind |-> "error", total_approved |-> 0, total_rejected |-> 0, lines |-> <<>>]

\* A decision call: path tells whether the ledger or the classifier decided.
DecisionCall(op, c, u, path, ok) ==
    [op |-> op, channel |-> c, user |-> u, path |-> path, ok |-> ok]

\* Line 173: channels_to_process
ChannelsToProcess(channel_id) ==
    IF channel_id # 0 THEN <<channel_id>> ELSE CHANNEL_IDS

\* A run whose fetch sits in no try of its own: the error ends the loop.
ChannelError_ends_loop(e) ==
    /\ results' = Append(results, ErrorLine(channels_to_process[b_i], e))
    /\ b_i' = b_i + 1
    /\ b_pc' = "report"

\* A run that reports nothing for a channel that failed.
ChannelError_no_line(e) ==
    /\ results' = results
    /\ b_i' = b_i + 1
    /\ b_pc' = "for_channel"

\* Lines 226-230: the handler of the per-channel try: an error line, and the
\* loop of line 179 goes on with the next channel.
ChannelError(e) ==
    /\ results' = Append(results, ErrorLine(channels_to_process[b_i], e))
    /\ b_i' = b_i + 1
    /\ b_pc' = "for_channel"

\* Lines 205-216: the call the verdict asks for.
DecisionOp(verdict) == IF ~verdict.suspicious THEN "approve" ELSE "decline"

\* approve_all_pending, lines 166-177: the job queue runs the next job.
approve_all_pending ==
    /\ b_pc \in {"idle", "done"}
    /\ jobs # <<>>
    /\ jobs' = Tail(jobs)
    /\ chat_id' = Head(jobs).chat_id
    /\ channels_to_process' = ChannelsToProcess(Head(jobs).channel_id)
    /\ total_approved' = 0
    /\ total_rejected' = 0
    /\ results' = <<>>
    /\ b_i' = 1
    /\ b_pc' = "for_channel"
    /\ pending_requests' = <<>>
    /\ b_r' = 0
    /\ approved_count' = 0
    /\ rejected_count' = 0
    /\ b_calls' = <<>>
    /\ sent' = <<>>
    /\ fetched' = <<>>
    /\ UNCHANGED <<left_users, disk, dispVars, histVars, classVars>>

\* Lines 179-189: the next channel and the fetch of its pending requests.
for_channel ==
    /\ b_pc = "for_channel"
    /\ IF b_i > Len(channels_to_process)
       THEN /\ b_pc' = "report"
            /\ UNCHANGED <<b_i, pending_requests, b_r, approved_count,
                           rejected_count, results, b_calls, fetched>>
       ELSE IF channels_to_process[b_i] = 0
       THEN /\ b_i' = b_i + 1
            /\ UNCHANGED <<b_pc, pending_requests, b_r, approved_count,
                           rejected_count, results, b_calls, fetched>>
       ELSE \/ /\ ChannelError("fetch failed")
               /\ fetched' = Append(fetched, FALSE)
               /\ UNCHANGED <<pending_requests, b_r, approved_count,
                              rejected_count, b_calls>>
            \/ \E result \in FetchResults :
               /\ fetched' = Append(fetched, TRUE)
               /\ pending_requests' = result
               /\ approved_count' = 0
               /\ rejected_count' = 0
               /\ b_r' = 1
               /\ b_calls' = <<>>
               /\ b_pc' = "for_request"
               /\ UNCHANGED <<b_i, results>>
    /\ UNCHANGED <<chat_id, channels_to_process, total_approved,
                   total_rejected, sent>>
    /\ UNCHANGED <<sharedVars, dispVars, histVars, classVars>>

\* Line 191 and the first operand of line 195, str(user.id) in left_users;
\* after the last request, lines 218-221: the tally line and the totals.
for_request ==
    /\ b_pc = "for_request"
    /\ IF b_r > Len(pending_requests)
       THEN /\ results' = Append(results,
                TallyLine(channels_to_process[b_i], approved_count, rejected_count))
            /\ total_approved' = total_approved + approved_count
            /\ total_rejected' = total_rejected + rejected_count
            /\ b_pc' = "sleep"
       ELSE /\ b_pc' = IF HasKey(left_users, Str(pending_requests[b_r].id))
                       THEN "lookup" ELSE "classify"
            /\ UNCHANGED <<results, total_approved, total_rejected>>
    /\ UNCHANGED <<chat_id, channels_to_process, b_i, pending_requests, b_r,
                   approved_count, rejected_count, b_calls, sent, fetched>>
    /\ UNCHANGED <<sharedVars, dispVars, histVars, classVars>>

\* The second operand of line 195, channel_id in left_users[str(user.id)]:
\* the subscript raises KeyError when the entry has been deleted meanwhile.
lookup ==
    /\ b_pc = "lookup"
    /\ LET key == Str(pending_requests[b_r].id) IN
       IF ~HasKey(left_users, key)
       THEN ChannelError("KeyError")
       ELSE /\ b_pc' = IF InList(left_users[key], channels_to_process[b_i])
                       THEN "decline_left" ELSE "classify"
            /\ UNCHANGED <<b_i, results>>
    /\ UNCHANGED <<chat_id, channels_to_process, pending_requests, b_r,
                   approved_count, rejected_count, total_approved,
                   total_rejected, b_calls, sent, fetched>>
    /\ UNCHANGED <<sharedVars, dispVars, histVars, classVars>>

\* A run that clears the pair of a requester it has declined.
decline_left_clears ==
    /\ b_pc = "decline_left"
    /\ \E ok \in BOOLEAN :
       /\ b_calls' = Append(b_calls,
             DecisionCall("decline", channels_to_process[b_i],
                          pending_requests[b_r].id, "ledger", ok))
       /\ IF ok
          THEN /\ rejected_count' = rejected_count + 1
               /\ b_r' = b_r + 1
               /\ b_pc' = "for_request"
               /\ left_users' =
                     IF has_left(left_users, Str(pending_requests[b_r].id),
                                 channels_to_process[b_i])
                     THEN DropIfEmpty(
                            RemoveChannel(left_users, Str(pending_requests[b_r].id),
                                          channels_to_process[b_i]),
                            Str(pending_requests[b_r].id))
                     ELSE left_users
               /\ UNCHANGED <<b_i, results>>
          ELSE /\ ChannelError("decline failed")
               /\ UNCHANGED <<rejected_count, b_r, left_users>>
    /\ UNCHANGED <<chat_id, channels_to_process, pending_requests,
                   approved_count, total_approved, total_rejected, sent, fetched>>
    /\ UNCHANGED <<disk, jobs, dispVars, histVars, classVars>>

\* Lines 196-200: the requester left this channel before: decline.
decline_left ==
    /\ b_pc = "decline_left"
    /\ \E ok \in BOOLEAN :
       /\ b_calls' = Append(b_calls,
             DecisionCall("decline", channels_to_process[b_i],
                          pending_requests[b_r].id, "ledger", ok))
       /\ IF ok
          THEN /\ rejected_count' = rejected_count + 1
               /\ b_r' = b_r + 1
               /\ b_pc' = "for_request"
               /\ UNCHANGED <<b_i, results>>
          ELSE /\ ChannelError("decline failed")
               /\ UNCHANGED <<rejected_count, b_r>>
    /\ UNCHANGED <<chat_id, channels_to_process, pending_requests,
                   approved_count, total_approved, total_rejected, sent, fetched>>
    /\ UNCHANGED <<sharedVars, dispVars, histVars, classVars>>

\* Lines 203-216: the classifier and the call its verdict asks for.
classify ==
    /\ b_pc = "classify"
    /\ \E now \in Clock, ok \in BOOLEAN :
       LET user == pending_requests[b_r]
           op == DecisionOp(is_suspicious_user(user, now))
       IN  /\ b_calls' = Append(b_calls,
                 DecisionCall(op, channels_to_process[b_i], user.id, "classifier", ok))
           /\ IF ok
              THEN /\ approved_count' = approved_count + (IF op = "approve" THEN 1 ELSE 0)
                   /\ rejected_count' = rejected_count + (IF op = "decline" THEN 1 ELSE 0)
                   /\ b_r' = b_r + 1
                   /\ b_pc' = "for_request"
                   /\ UNCHANGED <<b_i, results>>
              ELSE /\ ChannelError(IF op = "approve" THEN "approve failed"
                                                    ELSE "decline failed")
                   /\ UNCHANGED <<approved_count, rejected_count, b_r>>
    /\ UNCHANGED <<chat_id, channels_to_process, pending_requests,
                   total_approved, total_rejected, sent, fetched>>
    /\ UNCHANGED <<sharedVars, dispVars, histVars, classVars>>

\* Line 224: time.sleep(1), then the next channel.
sleep ==
    /\ b_pc = "sleep"
    /\ b_i' = b_i + 1
    /\ b_pc' = "for_channel"
    /\ UNCHANGED <<chat_id, channels_to_process, pending_requests, b_r,
                   approved_count, rejected_count, total_approved,
                   total_rejected, results, b_calls, sent, fetched>>
    /\ UNCHANGED <<sharedVars, dispVars, histVars, classVars>>

\* approve_all_pending returns (or ends with an exception): its locals are
\* gone; what it sent stays in the chat.
Returned ==
    /\ b_pc' = "done"
    /\ chat_id' = 0
    /\ channels_to_process' = <<>>
    /\ b_i' = 0
    /\ pending_requests' = <<>>
    /\ b_r' = 0
    /\ approved_count' = 0
    /\ rejected_count' = 0
    /\ total_approved' = 0
    /\ total_rejected' = 0
    /\ results' = <<>>
    /\ b_calls' = <<>>
    /\ fetched' = <<>>

\* Lines 233-235: the summary is sent to the chat the command came from;
\* send_message may raise, which takes the run to line 237.
report ==
    /\ b_pc = "report"
    /\ IF chat_id # 0
       THEN \/ /\ sent' = Append(sent,
                     SummaryMessage(total_approved, total_rejected, results))
               /\ Returned
            \/ /\ sent' = sent
               /\ b_pc' = "except"
               /\ UNCHANGED <<chat_id, channels_to_process, b_i,
                              pending_requests, b_r, approved_count,
                              rejected_count, total_approved, total_rejected,
                              results, b_calls, fetched>>
       ELSE /\ sent' = sent
            /\ Returned
    /\ UNCHANGED <<sharedVars, dispVars, histVars, classVars>>

\* Lines 237-242: the handler of the outer try sends an error message; this
\* send_message is guarded by nothing, so when it raises the job ends with
\* the exception.
report_error ==
    /\ b_pc = "except"
    /\ \/ sent' = Append(sent, ErrorMessage)
       \/ sent' = sent
    /\ Returned
    /\ UNCHANGED <<sharedVars, dispVars, histVars, classVars>>

\* ------------------------------------------------------------------ specs

\* The updates that arrive while jobs run: departures and promotions of both
\* users in every chat, and commands of an administrator.
RunMemberUpdates ==
    {upd \in MemberUpdates :
        /\ upd.type = "chat_member"
        /\ <<upd.old_status, upd.new_status>> \in
              {<<"member", "left">>, <<"administrator", "kicked">>,
               <<"member", "administrator">>}}

RunCommandUpdates(command, argsets) ==
    {upd \in CommandUpdates(command, argsets) :
        upd.chat_type = "supergroup" /\ upd.caller_status = "administrator"}

RunApproveUserArgs ==
    {<<u>> : u \in {"1", "2"}}
    \cup {<<u, c>> : u \in {"1", "2"}, c \in {"11", "12", "13"}}

RunApproveAllArgs == {<<>>, <<"11">>, <<"14">>}

\* The dispatcher takes the next update.
Dispatch ==
    \/ \E upd \in RunMemberUpdates : track_chat_members(upd)
    \/ \E upd \in RunCommandUpdates("approve_user", RunApproveUserArgs) : manual_approve(upd)
    \/ \E upd \in RunCommandUpdates("approve_all", RunApproveAllArgs) : start_approval(upd)

\* The statements of the running handler.
HandlerStep ==
    \/ track_append
    \/ track_save
    \/ manual_next_channel
    \/ manual_del
    \/ manual_save
    \/ manual_call
    \/ manual_reply
    \/ handler_return

\* The statements of the running job.
BatchStep ==
    \/ approve_all_pending
    \/ for_channel
    \/ for_request
    \/ lookup
    \/ decline_left
    \/ classify
    \/ sleep
    \/ report
    \/ report_error

Next ==
    \/ (updates < MaxUpdates /\ Dispatch)
    \/ HandlerStep
    \/ BatchStep

Spec == Init /\ [][Next]_vars

\* The handlers alone, with no job running: the ledger under longer
\* sequences of membership events and manual approvals.
DispatchLedger ==
    \/ \E upd \in MemberUpdates : track_chat_members(upd)
    \/ \E upd \in CommandUpdates("approve_user", ApproveUserArgs) : manual_approve(upd)

NextLedger ==
    \/ (updates < MaxLedgerUpdates /\ DispatchLedger)
    \/ HandlerStep

SpecLedger == Init /\ [][NextLedger]_vars

\* Ledgers an earlier process has written to left_users.json.
StoredLedgers ==
    {EmptyDict,
     [k \in {"1"} |-> <<11>>],
     [k \in {"1", "2"} |-> IF k = "1" THEN <<13, 11>> ELSE <<12>>]}

\* The process starts beside a file an earlier process wrote.
InitRun == \E d \in StoredLedgers : StartedWith(JsonFile(d))

\* Runs of approve_all_pending alone: /approve_all commands and the jobs
\* they schedule, against the ledger loaded at the start.
NextRun ==
    \/ (/\ updates < MaxRunCommands
        /\ \E upd \in CommandUpdates("approve_all", ApproveAllArgs) : start_approval(upd))
    \/ handler_return
    \/ BatchStep

SpecRun == InitRun /\ [][NextRun]_vars

\* Departures and manual approvals of user 1 beside runs on channel 11:
\* long enough for a departure to be recorded, a run to be started and the
\* departure to be cleared while the run is on.
DispatchRace ==
    \/ \E upd \in RunMemberUpdates :
          upd.user = 1 /\ upd.new_status = "left" /\ upd.chat \in {11, 12}
          /\ track_chat_members(upd)
    \/ \E upd \in RunCommandUpdates("approve_user", {<<"1", "11">>}) :
          manual_approve(upd)
    \/ \E upd \in RunCommandUpdates("approve_all", {<<"11">>}) :
          start_approval(upd)

NextRace ==
    \/ (updates < MaxRaceUpdates /\ DispatchRace)
    \/ HandlerStep
    \/ BatchStep

SpecRace == Init /\ [][NextRace]_vars

\* The profiles is_suspicious_user is called with: created_at absent, a
\* datetime or no datetime; each name absent, plain, or holding a keyword in
\* some mix of cases.
Text_Botx == <<"B", "o", "t", "x">>
Text_Admin == <<"A", "d", "m", "i", "n">>
Text_bot == <<"b", "o", "t">>
Profiles ==
    {User(1, c, u, f, l) :
        c \in {NoDate, Date(80), BadDate},
        u \in {<<>>, Text_al, Text_Botx},
        f \in {<<>>, Text_Al, Text_Admin},
        l \in {<<>>, Text_al, Text_bot}}

\* One call of is_suspicious_user(user), lines 106-137.
call_is_suspicious_user ==
    /\ cls_verdict' = is_suspicious_user(cls_user, cls_now)
    /\ UNCHANGED <<cls_user, cls_now>>
    /\ UNCHANGED <<sharedVars, dispVars, batchVars, histVars>>

InitClassifier ==
    /\ disk = NoFile
    /\ left_users = load_left_users(NoFile)
    /\ Threads
    /\ cls_user \in Profiles
    /\ cls_now \in Clock
    /\ cls_verdict = NoVerdict

NextClassifier == call_is_suspicious_user

SpecClassifier == InitClassifier /\ [][NextClassifier]_vars

\* The pairs a ledger holds.
Pairs(d) == UNION {{<<k, d[k][i]>> : i \in 1..Len(d[k])} : k \in DOMAIN d}

\* The process is killed at any point and started again (line 89).  A kill
\* inside save_left_users, after open(.., 'w') has truncated the file and
\* before json.dump has written the whole document, leaves the file cut
\* short; a kill after the dump leaves the new document.
crash_restart ==
    /\ disk' \in IF d_pc \in {"track_159", "manual_317"}
                  THEN {disk, BrokenFile, JsonFile(left_users)}
                  ELSE {disk}
    /\ left_users' = load_left_users(disk')
    /\ jobs' = <<>>
    /\ d_pc' = "idle"
    /\ update' = NoUpdate
    /\ user_id' = ""
    /\ channel' = 0
    /\ channels_to_approve' = <<>>
    /\ d_i' = 0
    /\ approved_channels' = <<>>
    /\ reply' = ""
    /\ d_calls' = <<>>
    /\ pre_left_users' = EmptyDict
    /\ pre_disk' = NoFile
    /\ observed' = Pairs(left_users')
    /\ write_failed' = FALSE
    /\ during_run' = {}
    /\ UNCHANGED <<updates, batchVars, classVars>>

\* The handlers of a process that may be killed and started again.
NextCrash ==
    \/ (updates < MaxLedgerUpdates /\ DispatchLedger)
    \/ HandlerStep
    \/ crash_restart

SpecCrash == Init /\ [][NextCrash]_vars

\* ================================================================= claims

Last(seq) == seq[Len(seq)]

\* The batch thread takes the step that leaves statement pc.
Leaves(pc) == b_pc = pc /\ b_pc' # pc

\* --------------------------------------------------------------------- C1
\* C1: when a pending request's channel is in the requester's ledger entry
\* at the check of line 195, the run issues a decline for (channel, user),
\* never an approve, counts one more rejection and does not consult the
\* classifier.
C1_LedgerHitDeclinesAndCounts ==
    [][Leaves("decline_left") =>
          /\ b_calls' = Append(b_calls,
                DecisionCall("decline", channels_to_process[b_i],
                             pending_requests[b_r].id, "ledger", Last(b_calls').ok))
          /\ rejected_count' = rejected_count + 1
          /\ approved_count' = approved_count]_vars

\* --------------------------------------------------------------------- C2
\* C2: a pending request whose requester is not in the ledger for the channel
\* gets exactly one decision call: approve, and one more approval counted,
\* iff the classifier's verdict is Legitimate; otherwise decline, and one more
\* rejection counted; then the run goes on with the next request.
C2_ClassifierDecidesAndCounts ==
    [][Leaves("classify") =>
          \E now \in Clock :
             LET user == pending_requests[b_r]
                 legitimate == ~is_suspicious_user(user, now).suspicious
                 call == Last(b_calls')
             IN  /\ Len(b_calls') = Len(b_calls) + 1
                 /\ call.channel = channels_to_process[b_i]
                 /\ call.user = user.id
                 /\ call.op = "approve" <=> legitimate
                 /\ call.op = "decline" <=> ~legitimate
                 /\ approved_count' = approved_count + (IF legitimate THEN 1 ELSE 0)
                 /\ rejected_count' = rejected_count + (IF legitimate THEN 0 ELSE 1)
                 /\ b_r' = b_r + 1
                 /\ b_pc' = "for_request"]_vars

\* --------------------------------------------------------------------- C3
RECURSIVE TallySum(_, _)
\* The sum of the approved (or rejected) counts of the tally lines.
TallySum(lines, field) ==
    IF lines = <<>> THEN 0
    ELSE (IF Head(lines).kind # "tally" THEN 0
          ELSE IF field = "approved" THEN Head(lines).approved
          ELSE Head(lines).rejected)
         + TallySum(Tail(lines), field)

\* C3: a channel whose fetch fails gets an error line and the run goes on:
\* between channels and after the last one, every channel of the target passed
\* so far has exactly one line, in target order, an error line when its fetch
\* failed; after the loop every channel of the target has its line; the totals
\* are the sums over the tally lines alone, in the run and in the summary sent.
C3_PerChannelIsolation ==
    /\ b_pc \in {"for_channel", "report"} =>
          /\ Len(results) = b_i - 1
          /\ Len(fetched) = b_i - 1
          /\ \A i \in 1..Len(results) :
                /\ results[i].channel = channels_to_process[i]
                /\ ~fetched[i] => results[i].kind = "error"
                /\ results[i].kind = "tally" => fetched[i]
          /\ b_pc = "report" => Len(results) = Len(channels_to_process)
          /\ total_approved = TallySum(results, "approved")
          /\ total_rejected = TallySum(results, "rejected")
    /\ \A i \in 1..Len(sent) :
          sent[i].kind = "summary" =>
             /\ sent[i].total_approved = TallySum(sent[i].lines, "approved")
             /\ sent[i].total_rejected = TallySum(sent[i].lines, "rejected")

\* Three channels, the fetch of the second failed, the other two were
\* processed and decided one request each.
C3_Witness ==
    /\ b_pc = "report"
    /\ fetched = <<TRUE, FALSE, TRUE>>
    /\ results[1].kind = "tally" /\ results[1].approved + results[1].rejected = 1
    /\ results[2].kind = "error" /\ results[2].channel = 12
    /\ results[3].kind = "tally" /\ results[3].approved + results[3].rejected = 1
    /\ total_approved + total_rejected = 2

\* --------------------------------------------------------------------- C4
\* C4: a run that has ended has delivered exactly one outcome message, the
\* summary or an error message, whatever external calls failed.
C4_ExactlyOneOutcome == b_pc = "done" => Len(sent) = 1

\* --------------------------------------------------------------------- C5
\* An /approve_user command the handler accepts: an administrator in a group
\* chat names a numeric user id and, maybe, a numeric channel.
AcceptedApproveUser(upd) ==
    /\ upd.command = "approve_user"
    /\ Refusal(upd) = ""
    /\ Len(upd.args) >= 1
    /\ ~IntRaises(upd.args[1])
    /\ Len(upd.args) > 1 => ~IntRaises(upd.args[2])

\* The monitored channels the command resolves to: the channel it names, when
\* monitored, or all monitored channels when it names none.
ResolvedChannels(args) ==
    IF Len(args) > 1
    THEN {ParseInt(args[2])} \cap Range(CHANNEL_IDS)
    ELSE Range(CHANNEL_IDS)

\* C5: when manual_approve for user X has ended, every resolved monitored
\* channel is out of X's ledger entry and an approve call for it and X has
\* been issued.
C5_ManualApproveClearsAndApproves ==
    (d_pc = "return" /\ AcceptedApproveUser(update)) =>
        \A c \in ResolvedChannels(update.args) :
            /\ ~has_left(left_users, Str(ParseInt(update.args[1])), c)
            /\ \E i \in 1..Len(d_calls) :
                  /\ d_calls[i].channel = c
                  /\ d_calls[i].user = ParseInt(update.args[1])

\* --------------------------------------------------------------------- C6
\* C6: a manual approval that names a channel outside the monitored set
\* changes neither the ledger nor the file, issues no approve call and
\* replies that no channel was approved.
C6_UnmonitoredChannelIsNoOp ==
    (/\ d_pc # "idle"
     /\ AcceptedApproveUser(update)
     /\ Len(update.args) > 1
     /\ ~Monitored(ParseInt(update.args[2]))) =>
        /\ left_users = pre_left_users
        /\ disk = pre_disk
        /\ d_calls = <<>>
        /\ d_pc = "return" => reply = "No channels were approved."

\* --------------------------------------------------------------------- C7
\* The ledger d with channel c in the entry of key: unchanged when the entry
\* holds c, else c is added at the end of the (maybe new) entry.
Recorded(d, key, c) ==
    IF key \in DOMAIN d /\ c \in Range(d[key]) THEN d
    ELSE [k \in (DOMAIN d) \cup {key} |->
            IF k # key THEN d[k]
            ELSE IF key \in DOMAIN d THEN Append(d[key], c) ELSE <<c>>]

\* C7: when track_chat_members has handled an update, the ledger is the one
\* before with the channel recorded for the user if the update is a
\* chat_member update of a monitored channel from member, administrator or
\* creator to left or kicked; after any other update the ledger and the file
\* are the ones before.
C7_TrackerRecordsExactlyDepartures ==
    (d_pc = "return" /\ update.type \in {"chat_member", "my_chat_member"}) =>
        IF ObservesDeparture(update)
        THEN left_users = Recorded(pre_left_users, Str(update.user), update.chat)
        ELSE left_users = pre_left_users /\ disk = pre_disk

\* An administrator has left a monitored channel and is now in the ledger.
C7_Witness ==
    /\ d_pc = "return"
    /\ update.type = "chat_member"
    /\ update.old_status = "administrator"
    /\ update.new_status = "left"
    /\ update.chat = 11
    /\ update.user = 1
    /\ pre_left_users = EmptyDict
    /\ "1" \in DOMAIN left_users
    /\ left_users["1"] = <<11>>

\* --------------------------------------------------------------------- C8
\* C8: in every reachable state no user has an entry whose channel list is
\* empty.
C8_NoEmptyEntry == \A k \in DOMAIN left_users : left_users[k] # <<>>

\* --------------------------------------------------------------------- C9
NoDuplicates(list) == Cardinality(Range(list)) = Len(list)

\* The ledger d with channel c cleared for key: unchanged when the entry does
\* not hold c; the entry goes when c was its last channel.
Cleared(d, key, c) ==
    IF ~(key \in DOMAIN d /\ c \in Range(d[key])) THEN d
    ELSE LET rest == SelectSeq(d[key], LAMBDA x : x # c)
         IN  IF rest = <<>>
             THEN [k \in (DOMAIN d) \ {key} |-> d[k]]
             ELSE [d EXCEPT ![key] = rest]

RECURSIVE ClearedAll(_, _, _)
\* The ledger d with every monitored channel of the list cleared for key.
ClearedAll(d, key, channels) ==
    IF channels = <<>> THEN d
    ELSE ClearedAll(IF Head(channels) \in Range(CHANNEL_IDS)
                    THEN Cleared(d, key, Head(channels)) ELSE d,
                    key, Tail(channels))

\* C9: after a departure (u,c) is recorded the ledger holds (u,c), and
\* recording a pair it holds changes nothing; after manual_approve has
\* cleared (u,c) the ledger does not hold it, and the ledger is the one before
\* with the channels handled so far cleared, so clearing a pair it does not
\* hold changes nothing; no entry holds a channel twice.
C9_RecordAndClear ==
    /\ \A k \in DOMAIN left_users : NoDuplicates(left_users[k])
    /\ (d_pc = "return" /\ ObservesDeparture(update)) =>
          /\ has_left(left_users, Str(update.user), update.chat)
          /\ has_left(pre_left_users, Str(update.user), update.chat) =>
                left_users = pre_left_users
    /\ d_pc \in {"manual_317", "manual_320"} =>
          /\ ~has_left(left_users, user_id, channel)
          /\ left_users = ClearedAll(pre_left_users, user_id,
                                     SubSeq(channels_to_approve, 1, d_i))
    /\ d_pc \in {"manual_308", "manual_325"} =>
          left_users = ClearedAll(pre_left_users, user_id,
                                  SubSeq(channels_to_approve, 1, d_i - 1))

\* The same departure is recorded a second time and the ledger is as before.
C9_Witness ==
    /\ d_pc = "return"
    /\ ObservesDeparture(update)
    /\ has_left(pre_left_users, Str(update.user), update.chat)
    /\ left_users = pre_left_users
    /\ Len(left_users[Str(update.user)]) = 1

\* -------------------------------------------------------------------- C10
\* C10: whenever no handler is running, channel c is in the entry of user u
\* iff the tracker has observed a departure of u from c and no manual
\* approval has cleared (u,c) since.
C10_LedgerIffObserved ==
    d_pc = "idle" =>
        \A k \in ArgStrings, c \in ChatIds :
            has_left(left_users, k, c) <=> <<k, c>> \in observed

\* A departure was recorded and then cleared by a manual approval: the file
\* was rewritten with the empty ledger.
C10_Witness ==
    /\ d_pc = "idle"
    /\ updates = 2
    /\ observed = {}
    /\ left_users = EmptyDict
    /\ disk = JsonFile(EmptyDict)

\* -------------------------------------------------------------------- C11
\* The states in which no mutation of the ledger is under way: no handler runs,
\* or the handler has returned from save_left_users or mutated nothing yet.
MutationComplete ==
    d_pc \in {"idle", "return", "manual_308", "manual_320", "manual_325"}

\* C11: whenever the mutations of the ledger made so far are complete and no
\* write of this process has failed, the ledger the file holds is the ledger
\* in memory.
C11_SynchronousPersistence ==
    (MutationComplete /\ ~write_failed) => load_left_users(disk) = left_users

\* Two departures were recorded and one of them cleared; every write went
\* through and the file holds the ledger that is left.
C11_Witness ==
    /\ d_pc = "idle"
    /\ ~write_failed
    /\ updates = 3
    /\ left_users = [k \in {"1"} |-> <<12>>]
    /\ disk = JsonFile(left_users)
    /\ observed = {<<"1", 12>>}

\* -------------------------------------------------------------------- C12
\* C12: when the process is killed and started again, and no write of the
\* killed process had failed, every pair the ledger held that the running
\* handler had not touched is in the ledger the new process loads.
C12_CrashLosesAtMostInFlight ==
    [][(crash_restart /\ ~write_failed) =>
          \A pair \in Pairs(left_users) :
             (d_pc = "idle" \/ pair \in Pairs(pre_left_users)) =>
                pair \in Pairs(left_users')]_vars

\* -------------------------------------------------------------------- C13
\* The handler takes the step of save_left_users and the file it leaves is not
\* the dump of the ledger.
FailedSave ==
    /\ d_pc \in {"track_159", "manual_317"}
    /\ d_pc' # d_pc
    /\ disk' # JsonFile(left_users)

\* C13: a save that fails changes nothing in memory and the handler goes on
\* where it would after a save that succeeds: the recorded pair stays
\* recorded, the cleared pair stays cleared; and whenever no handler runs, the
\* ledger in memory holds exactly the departures observed and not cleared,
\* whatever the file holds.
C13_WriteFailureKeepsMutation ==
    /\ [][FailedSave =>
             /\ left_users' = left_users
             /\ reply' = reply
             /\ d_pc' = (IF d_pc = "track_159" THEN "return" ELSE "manual_320")
             /\ d_pc = "track_159" => has_left(left_users', user_id, channel)
             /\ d_pc = "manual_317" => ~has_left(left_users', user_id, channel)]_vars
    /\ [](d_pc = "idle" => Pairs(left_users) = observed)

\* A second departure was recorded while the write failed: the ledger in
\* memory holds both pairs, the file only the first.
C13_Witness ==
    /\ d_pc = "return"
    /\ write_failed
    /\ ObservesDeparture(update)
    /\ Pairs(pre_left_users) # {}
    /\ disk = JsonFile(pre_left_users)
    /\ has_left(left_users, Str(update.user), update.chat)
    /\ ~has_left(load_left_users(disk), Str(update.user), update.chat)

\* -------------------------------------------------------------------- C14
\* The channel argument of the trigger is not one of the monitored channels.
NamesUnmonitored(args) ==
    /\ args # <<>>
    /\ IntRaises(args[1]) \/ ParseInt(args[1]) \notin Range(CHANNEL_IDS)

\* The target the trigger asks for: the channel it names, or all of them.
ExpectedTarget(args) ==
    IF args = <<>> THEN CHANNEL_IDS ELSE <<ParseInt(args[1])>>

\* The target a scheduled job stands for (no channel: all of them).
TargetOf(job) ==
    IF job.channel_id = 0 THEN CHANNEL_IDS ELSE <<job.channel_id>>

\* start_approval has handled a trigger.
TriggerHandled ==
    d_pc = "idle" /\ d_pc' = "return" /\ update'.command = "approve_all"

TrackerBusy(pair) ==
    /\ d_pc \in {"track_157", "track_159"}
    /\ <<user_id, channel>> = pair

\* The departure was observed, the tracker has handled it and no manual
\* approval has cleared it.
Settled(pair) == pair \in observed /\ ~TrackerBusy(pair)

\* The pair the check of line 195 is about.
CheckedPair == <<Str(pending_requests[b_r].id), channels_to_process[b_i]>>

\* C15: a departure the tracker has handled, during a run or not, is in the
\* ledger until a manual approval clears it, and a check of line 195 made
\* while it is there finds it: the key test goes on to the lookup and the
\* lookup goes on to the decline.
C15_DepartureDuringRunNotLost ==
    /\ [](\A pair \in observed :
             Settled(pair) => has_left(left_users, pair[1], pair[2]))
    /\ [][(/\ b_pc = "for_request"
            /\ b_r <= Len(pending_requests)
            /\ b_pc' # b_pc
            /\ Settled(CheckedPair)) => b_pc' = "lookup"]_vars
    /\ [][(/\ b_pc = "lookup"
            /\ b_pc' # b_pc
            /\ Settled(CheckedPair)) => b_pc' = "decline_left"]_vars

\* User 1 left channel 11 while the run on channel 11 was on; the tracker has
\* returned, and the check of the same run has found the pair.
C15_Witness ==
    /\ b_pc = "decline_left"
    /\ d_pc = "idle"
    /\ updates = 2
    /\ CheckedPair = <<"1", 11>>
    /\ CheckedPair \in during_run

\* -------------------------------------------------------------------- C16
\* The batch thread takes a step that reads left_users for the check of line
\* 195: the key test or the lookup.
CheckReads ==
    \/ b_pc = "for_request" /\ b_r <= Len(pending_requests) /\ b_pc' # b_pc
    \/ b_pc = "lookup" /\ b_pc' # b_pc

\* C16: a read of the check never finds the entry of the requester empty, the
\* lookup never finds the entry gone after the key test found it, and no
\* channel is aborted by the KeyError of the lookup.
C16_LedgerAccessesExclusive ==
    /\ [][CheckReads =>
             /\ HasKey(left_users, CheckedPair[1]) =>
                   left_users[CheckedPair[1]] # <<>>
             /\ b_pc = "lookup" => HasKey(left_users, CheckedPair[1])]_vars
    /\ [](\A i \in 1..Len(results) : results[i].error # "KeyError")

\* -------------------------------------------------------------------- C17
\* The text holds one of the suspicious words, in any mix of cases.
SuspiciousText(text) == text # <<>> /\ HasKeyword(Lower(text))

\* The five rules, in the order of the claim: which of them match the profile
\* at the time, and the verdict each gives.
RuleMatches(user, now) ==
    << user.created_at.kind = "datetime"
          /\ now - user.created_at.day < MIN_ACCOUNT_AGE_DAYS,
       SuspiciousText(user.username),
       SuspiciousText(user.first_name),
       SuspiciousText(user.last_name),
       user.username = <<>> >>

RuleReasons ==
    <<"Account too new", "Suspicious username", "Suspicious first name",
      "Suspicious last name", "No username">>

\* The verdict of the first rule that matches, Legitimate when none does.
FirstMatch(user, now) ==
    LET m == RuleMatches(user, now)
        hits == {i \in 1..Len(m) : m[i]}
    IN  IF hits = {}
        THEN Verdict(FALSE, "User appears legitimate")
        ELSE Verdict(TRUE, RuleReasons[CHOOSE i \in hits : \A j \in hits : i <= j])

\* is_suspicious_user has returned.
Called == cls_verdict # NoVerdict

\* C17, as stated: the verdict of every call is the verdict of the first rule
\* that matches, in the order account age, handle, first name, last name,
\* handle absent, and Legitimate iff no rule matches; the call changes nothing
\* else.
C17_FirstMatchingRule_AsStated ==
    Called =>
        /\ cls_verdict = FirstMatch(cls_user, cls_now)
        /\ left_users = EmptyDict /\ disk = NoFile

\* C17, amended: a profile whose evaluation raises (created_at is set and is
\* no datetime that can be subtracted from now) is Suspicious for the error,
\* whatever rules match; for every other profile the verdict is the verdict of
\* the first rule that matches, in the order account age, handle, first name,
\* last name, handle absent, and Legitimate iff no rule matches; the call
\* changes nothing else.
C17_FirstMatchingRule ==
    Called =>
        /\ IF cls_user.created_at.kind = "bad"
           THEN cls_verdict = Verdict(TRUE, "Error checking user")
           ELSE cls_verdict = FirstMatch(cls_user, cls_now)
        /\ left_users = EmptyDict /\ disk = NoFile

\* A profile with no handle and a suspicious first name, of an account that
\* is old enough, is reported for the first name.
C17_Witness ==
    /\ Called
    /\ cls_user.username = <<>>
    /\ cls_user.first_name = Text_Admin
    /\ cls_user.created_at = Date(80)
    /\ cls_now = 120
    /\ cls_verdict = Verdict(TRUE, "Suspicious first name")

\* -------------------------------------------------------------------- C18
\* The run issues an approve or decline call and the call fails.
CallFails ==
    /\ Len(b_calls') = Len(b_calls) + 1
    /\ ~Last(b_calls').ok

\* C18: when an approve or decline call fails, the run goes on with the next
\* request of the same channel, keeps the counts of the decisions made so far
\* for the channel and adds no error line for it.
C18_FireAndForget ==
    [][CallFails =>
          /\ b_pc' = "for_request"
          /\ b_r' = b_r + 1
          /\ b_i' = b_i
          /\ approved_count' = approved_count
          /\ rejected_count' = rejected_count
          /\ results' = results]_vars

\* -------------------------------------------------------------------- C19
\* The processing of a channel ends: its line, a tally or an error line, is
\* added to the report.
ChannelEnds == Len(results') = Len(results) + 1

\* C19: when the processing of a channel ends and the target holds a channel
\* after it, the next thing the run does is the pause of line 224, before the
\* fetch of the next channel; channels are taken one at a time, in order.
C19_PauseBetweenChannels ==
    /\ [][(ChannelEnds /\ b_i < Len(channels_to_process)) =>
             b_pc' = "sleep"]_vars
    /\ [][RunInProgress /\ RunInProgress' => b_i' \in {b_i, b_i + 1}]_vars

\* -------------------------------------------------------------------- C20
\* The ledger in memory or the file changes.
LedgerChanges == left_users' # left_users \/ disk' # disk

\* C20: no step of approve_all_pending changes the ledger in memory or the
\* file: every step that changes one of them is a step of the handler of a
\* membership update or of a manual approval, and leaves the run where it is.
C20_RunNeverMutatesLedger ==
    /\ [][batchVars' # batchVars => ~LedgerChanges]_vars
    /\ [][LedgerChanges =>
             /\ batchVars' = batchVars
             /\ update'.type = "chat_member" \/ update'.command = "approve_user"]_vars

\* A run has declined user 1 on channel 11 for the ledger and goes on; the
\* pair is still in the ledger and in the file.
C20_Witness ==
    /\ b_pc = "for_request"
    /\ Len(b_calls) = 1
    /\ b_calls[1] = DecisionCall("decline", 11, 1, "ledger", TRUE)
    /\ rejected_count = 1
    /\ has_left(left_users, "1", 11)
    /\ disk = JsonFile(left_users)

\* -------------------------------------------------------------------- C21
\* The run adds the tally line of the channel it has just processed.
TallyAdded ==
    /\ Len(results') = Len(results) + 1
    /\ Last(results').kind = "tally"

\* The run delivers its summary.
SummarySent ==
    /\ Len(sent') = Len(sent) + 1
    /\ Last(sent').kind = "summary"

\* The lines are one per channel of the target, in the order of the target.
OneLinePerChannel(lines, target) ==
    /\ Len(lines) = Len(target)
    /\ \A i \in 1..Len(lines) :
          /\ lines[i].channel = target[i]
          /\ lines[i].kind \in {"tally", "error"}

\* C21: the summary a run delivers holds one line, a tally or an error line,
\* for each channel of the target, in target order, and its totals are the
\* sums of the approved and of the rejected counts of its tally lines; the
\* counts of a tally line add up to the number of requests fetched for its
\* channel; a line, once added, is never changed.
C21_SummaryLinesAndTotals ==
    /\ [][SummarySent =>
             /\ OneLinePerChannel(Last(sent').lines, channels_to_process)
             /\ Last(sent').total_approved =
                   TallySum(Last(sent').lines, "approved")
             /\ Last(sent').total_rejected =
                   TallySum(Last(sent').lines, "rejected")
             /\ Last(sent').lines = results]_vars
    /\ [][TallyAdded =>
             /\ Last(results').channel = channels_to_process[b_i]
             /\ Last(results').approved + Last(results').rejected
                   = Len(pending_requests)
             /\ Last(fetched)]_vars
    /\ [][(RunInProgress /\ RunInProgress') =>
             /\ Len(results') >= Len(results)
             /\ SubSeq(results', 1, Len(results)) = results]_vars

\* A run on all three channels has delivered its summary: one approval on
\* channel 11, one rejection on channel 12, an error line for channel 13.
C21_Witness ==
    /\ b_pc = "done"
    /\ Len(sent) = 1
    /\ sent[1].kind = "summary"
    /\ Len(sent[1].lines) = 3
    /\ sent[1].lines[1] = TallyLine(11, 1, 0)
    /\ sent[1].lines[2] = TallyLine(12, 0, 1)
    /\ sent[1].lines[3].kind = "error"
    /\ sent[1].lines[3].channel = 13
    /\ sent[1].total_approved = 1
    /\ sent[1].total_rejected = 1

====
